---- MODULE Spec2Model ----
(***************************************************************************)
(* A model of speculos-client (src/src/lib.rs): the SpeculosClient handle  *)
(* that owns a `speculos` subprocess, the two HTTP operations apdu and     *)
(* automation, and the serde encodings of the automation protocol.         *)
(*                                                                         *)
(* Three specifications share the variables:                               *)
(*   Spec       the life of MaxClients calls of SpeculosClient::new, the   *)
(*              handles they return, the operations on them and drop;      *)
(*   ApiSpec    apdu and automation on one ready handle, recording the     *)
(*              whole HTTP response and the whole result;                  *)
(*   CodecSpec  the Serialize implementations applied to bounded inputs.   *)
(***************************************************************************)
EXTENDS Integers, Sequences, FiniteSets, TLC

\* ------------------------------------------------------------ bounds
\* Number of calls of SpeculosClient::new (each with its own port).
MaxClients == 2
\* Longest hex text in the "data" field of an /apdu response body.
MaxHexLen == 2
\* Longest conditions / actions slice of a rule.
MaxListLen == 1
\* Largest screen coordinate (x, y are u32 in the source).
MaxCoord == 1

Clients == 1..MaxClients

VARIABLES
    newPc,        \* each call of new: "idle", "spawning", "scanning", "done"
    newResult,    \* what new returned: "none", "Ok", "IoError"
    scanEnd,      \* how the stderr loop ended: "none", "marker", "eof", "error"
    child,        \* the subprocess: "none", "running", "exited", "killed"
    handle,       \* the SpeculosClient value: "none", "live", "dropped"
    process,      \* the `process` field of each handle: a child's id, 0 without
    killRequests, \* Child::kill calls made on each child
    killResult,   \* the result of the last Child::kill: "none", "Ok", "Err"
    outcome,      \* the last operation's result kind on each handle
    lastCall,     \* ApiSpec: the last operation, its response and its result
    encIn,        \* CodecSpec: the value handed to a Serialize implementation
    encOut        \* CodecSpec: what it produced

lifeVars == <<newPc, newResult, scanEnd, child, handle, process,
              killRequests, killResult, outcome>>
vars == <<newPc, newResult, scanEnd, child, handle, process,
          killRequests, killResult, outcome, lastCall, encIn, encOut>>

\* ------------------------------------------------------------ stderr lines
\* A line of the subprocess's stderr is a sequence of tokens: "x" is any
\* text, "MARK" the text "launcher: using default app name & version", and
\* "BAD" bytes that are not UTF-8 (BufRead::lines yields Err for the line).
Marker == "MARK"

Lines == { <<"x">>, <<"x", "MARK", "x">>, <<"MARK">>, <<"x", "BAD">> }

\* str::contains (src/src/lib.rs:171)
contains(line, pat) == \E i \in 1..Len(line) : line[i] = pat

\* The item BufRead::lines yields for a line: Err for invalid UTF-8.
ReadOk(line) == ~ contains(line, "BAD")


\* ------------------------------------------------------------ hex
HexLower == <<"0", "1", "2", "3", "4", "5", "6", "7",
              "8", "9", "a", "b", "c", "d", "e", "f">>
HexUpper == <<"0", "1", "2", "3", "4", "5", "6", "7",
              "8", "9", "A", "B", "C", "D", "E", "F">>

\* The value of one hex digit, either case; -1 for any other character.
val(ch) ==
    IF \E i \in 1..Len(HexLower) : HexLower[i] = ch
    THEN (CHOOSE i \in 1..Len(HexLower) : HexLower[i] = ch) - 1
    ELSE IF \E i \in 1..Len(HexUpper) : HexUpper[i] = ch
    THEN (CHOOSE i \in 1..Len(HexUpper) : HexUpper[i] = ch) - 1
    ELSE -1

\* hex::serde::deserialize, reached through #[serde(with = "hex")] on
\* PostApduResponse::data: odd length and non-hex characters are errors.
FromHex(text) ==
    IF Len(text) % 2 # 0
    THEN [ok |-> FALSE, err |-> "OddLength", bytes |-> <<>>]
    ELSE IF \E i \in 1..Len(text) : val(text[i]) < 0
    THEN [ok |-> FALSE, err |-> "InvalidHexCharacter", bytes |-> <<>>]
    ELSE [ok |-> TRUE, err |-> "none",
          bytes |-> [i \in 1..(Len(text) \div 2) |->
                        val(text[2 * i - 1]) * 16 + val(text[2 * i])]]

\* ------------------------------------------------------------ HTTP responses
\* Characters a response's "data" text is drawn from: two lower-case digits,
\* an upper-case digit and a character that is no hex digit.
BodyChars == {"0", "a", "F", "g"}

HexTexts == UNION { [1..n -> BodyChars] : n \in 0..MaxHexLen }

\* A response body: not JSON at all, a JSON object without "data", or an
\* object whose "data" is the given text.
Bodies ==
    { [kind |-> "notjson", data |-> <<>>], [kind |-> "nodata", data |-> <<>>] }
    \cup { [kind |-> "data", data |-> t] : t \in HexTexts }

Statuses == {200, 204, 304, 404, 500}

\* What `send().await` yields: a transport error, or a response with a
\* status and a body.
Responses ==
    { [transport |-> "error", status |-> 0,
       body |-> [kind |-> "notjson", data |-> <<>>]] }
    \cup { [transport |-> "ok", status |-> s, body |-> b] :
              s \in Statuses, b \in Bodies }

\* reqwest::Response::error_for_status: Err for 4xx and 5xx.
error_for_status(status) ==
    IF (status >= 400 /\ status <= 499) \/ (status >= 500 /\ status <= 599)
    THEN "Err" ELSE "Ok"

\* serde_json deserialization of PostApduResponse.
DeserializePostApduResponse(body) ==
    IF body.kind = "notjson"
    THEN [ok |-> FALSE, err |-> "Syntax", bytes |-> <<>>]
    ELSE IF body.kind = "nodata"
    THEN [ok |-> FALSE, err |-> "MissingField", bytes |-> <<>>]
    ELSE FromHex(body.data)

\* SpeculosClient::apdu: `?` on send, unwrap on the body, no status check.
apdu(resp) ==
    IF resp.transport = "error"
    THEN [kind |-> "Err", err |-> "ReqwestError", bytes |-> <<>>]
    ELSE LET parsed == DeserializePostApduResponse(resp.body) IN
         IF parsed.ok
         THEN [kind |-> "Ok", err |-> "none", bytes |-> parsed.bytes]
         ELSE [kind |-> "Panic", err |-> parsed.err, bytes |-> <<>>]

\* A slip automation is checked against: the status is not looked at.
automation_unchecked(resp) ==
    IF resp.transport = "error"
    THEN [kind |-> "Err", err |-> "ReqwestError", bytes |-> <<>>]
    ELSE [kind |-> "Ok", err |-> "none", bytes |-> <<>>]

\* SpeculosClient::automation: `?` on send, then `?` on error_for_status.
automation(resp) ==
    IF resp.transport = "error"
    THEN [kind |-> "Err", err |-> "ReqwestError", bytes |-> <<>>]
    ELSE IF error_for_status(resp.status) = "Err"
    THEN [kind |-> "Err", err |-> "ReqwestError", bytes |-> <<>>]
    ELSE [kind |-> "Ok", err |-> "none", bytes |-> <<>>]

NoCall ==
    [op |-> "none", client |-> 0,
     resp |-> [transport |-> "error", status |-> 0,
               body |-> [kind |-> "notjson", data |-> <<>>]],
     result |-> [kind |-> "none", err |-> "none", bytes |-> <<>>]]

\* ------------------------------------------------------------ initial state
NoCodec == [t |-> "none"]

Init ==
    /\ newPc = [c \in Clients |-> "idle"]
    /\ newResult = [c \in Clients |-> "none"]
    /\ scanEnd = [c \in Clients |-> "none"]
    /\ child = [c \in Clients |-> "none"]
    /\ handle = [c \in Clients |-> "none"]
    /\ process = [c \in Clients |-> 0]
    /\ killRequests = [c \in Clients |-> 0]
    /\ killResult = [c \in Clients |-> "none"]
    /\ outcome = [c \in Clients |-> "none"]
    /\ lastCall = NoCall
    /\ encIn = NoCodec
    /\ encOut = NoCodec

\* ------------------------------------------------------------ SpeculosClient::new
\* The caller enters SpeculosClient::new, which builds the command line and
\* calls Command::spawn.
NewCall(c) ==
    /\ newPc[c] = "idle"
    /\ newPc' = [newPc EXCEPT ![c] = "spawning"]
    /\ UNCHANGED <<newResult, scanEnd, child, handle, process, killRequests,
                   killResult, outcome>>

\* Command::spawn succeeded: the child runs with its stderr piped and new
\* goes on to the stderr loop.
SpawnOk(c) ==
    /\ newPc[c] = "spawning"
    /\ newPc' = [newPc EXCEPT ![c] = "scanning"]
    /\ child' = [child EXCEPT ![c] = "running"]
    /\ UNCHANGED <<newResult, scanEnd, handle, process, killRequests,
                   killResult, outcome>>

\* A slip SpawnErr is checked against: the error is returned although the
\* child was started.
SpawnErrLeaky(c) ==
    /\ newPc[c] = "spawning"
    /\ newPc' = [newPc EXCEPT ![c] = "done"]
    /\ newResult' = [newResult EXCEPT ![c] = "IoError"]
    /\ child' = [child EXCEPT ![c] = "running"]
    /\ UNCHANGED <<scanEnd, handle, process, killRequests,
                   killResult, outcome>>

\* Command::spawn failed: `?` returns Err(SpeculosError::IoError).
SpawnErr(c) ==
    /\ newPc[c] = "spawning"
    /\ newPc' = [newPc EXCEPT ![c] = "done"]
    /\ newResult' = [newResult EXCEPT ![c] = "IoError"]
    /\ UNCHANGED <<scanEnd, child, handle, process, killRequests,
                   killResult, outcome>>

\* The end of new after the stderr loop: Ok(Self { process, port, client }).
\* The child moves into the handle's `process` field. ClientBuilder::build
\* with only a timeout set is taken to succeed (its result is unwrapped), and
\* stderr was piped, so `process.stderr.take()` is Some and the loop runs.
ReturnHandle(c, how) ==
    /\ scanEnd' = [scanEnd EXCEPT ![c] = how]
    /\ newPc' = [newPc EXCEPT ![c] = "done"]
    /\ newResult' = [newResult EXCEPT ![c] = "Ok"]
    /\ handle' = [handle EXCEPT ![c] = "live"]
    /\ process' = [process EXCEPT ![c] = c]

\* One iteration of `for line in reader.lines().map_while(Result::ok)`: the
\* running child writes a line and the loop reads it. A line that cannot be
\* read ends the loop (map_while), a line with the marker breaks out of it,
\* any other line is skipped. While the child runs and writes nothing the
\* loop blocks: no step of new is enabled.
NewReadLine(c) ==
    /\ newPc[c] = "scanning"
    /\ child[c] = "running"
    /\ \E line \in Lines :
          IF ~ ReadOk(line) THEN ReturnHandle(c, "error")
          ELSE IF contains(line, Marker) THEN ReturnHandle(c, "marker")
          ELSE UNCHANGED <<scanEnd, newPc, newResult, handle, process>>
    /\ UNCHANGED <<child, killRequests, killResult, outcome>>

\* The child has exited and its stderr is at its end: lines() yields None,
\* the loop ends and new goes on to return the handle.
NewReadEof(c) ==
    /\ newPc[c] = "scanning"
    /\ child[c] = "exited"
    /\ ReturnHandle(c, "eof")
    /\ UNCHANGED <<child, killRequests, killResult, outcome>>

\* ------------------------------------------------------------ the subprocess
\* The emulator exits on its own (a crash, a port conflict, an "exit"
\* automation action).
ChildExit(c) ==
    /\ child[c] = "running"
    /\ child' = [child EXCEPT ![c] = "exited"]
    /\ UNCHANGED <<newPc, newResult, scanEnd, handle, process, killRequests,
                   killResult, outcome>>

\* What Child::kill can return: killing a running child may fail (EPERM);
\* an exited child that was never waited for still accepts the signal.
KillResults(st) == IF st = "running" THEN {"Ok", "Err"} ELSE {"Ok"}

\* ------------------------------------------------------------ operations
\* The result kinds each operation can produce over all responses.
ApduOutcomes == { apdu(resp).kind : resp \in Responses }

AutomationOutcomes == { automation(resp).kind : resp \in Responses }

\* SpeculosClient::apdu on handle c (&self: the handle must be live).
CallApdu(c) ==
    /\ handle[c] = "live"
    /\ \E k \in ApduOutcomes : outcome' = [outcome EXCEPT ![c] = k]
    /\ UNCHANGED <<newPc, newResult, scanEnd, child, handle, process,
                   killRequests, killResult>>

\* SpeculosClient::automation on handle c.
CallAutomation(c) ==
    /\ handle[c] = "live"
    /\ \E k \in AutomationOutcomes : outcome' = [outcome EXCEPT ![c] = k]
    /\ UNCHANGED <<newPc, newResult, scanEnd, child, handle, process,
                   killRequests, killResult>>

\* A slip Drop is checked against: the handle goes away and the child is
\* left alone.
DropNoKill(c) ==
    /\ handle[c] = "live"
    /\ handle' = [handle EXCEPT ![c] = "dropped"]
    /\ UNCHANGED <<newPc, newResult, scanEnd, child, process, killRequests,
                   killResult, outcome>>

\* A slip Drop is checked against: kill is requested only of a child that
\* has not exited.
DropKillIfRunning(c) ==
    /\ handle[c] = "live"
    /\ LET p == process[c] IN
       IF child[p] = "running"
       THEN \E r \in KillResults(child[p]) :
               /\ killRequests' = [killRequests EXCEPT ![p] = @ + 1]
               /\ killResult' = [killResult EXCEPT ![p] = r]
               /\ child' = [child EXCEPT ![p] =
                               IF r = "Ok" THEN "killed" ELSE @]
       ELSE UNCHANGED <<killRequests, killResult, child>>
    /\ handle' = [handle EXCEPT ![c] = "dropped"]
    /\ UNCHANGED <<newPc, newResult, scanEnd, process, outcome>>

\* impl Drop for SpeculosClient: `let _ = self.process.kill();`
Drop(c) ==
    /\ handle[c] = "live"
    /\ LET p == process[c] IN
       \E r \in KillResults(child[p]) :
          /\ killRequests' = [killRequests EXCEPT ![p] = @ + 1]
          /\ killResult' = [killResult EXCEPT ![p] = r]
          /\ child' = [child EXCEPT ![p] =
                          IF r = "Ok" /\ @ = "running" THEN "killed" ELSE @]
    /\ handle' = [handle EXCEPT ![c] = "dropped"]
    /\ UNCHANGED <<newPc, newResult, scanEnd, process, outcome>>

Next ==
    \E c \in Clients :
        \/ NewCall(c) /\ UNCHANGED <<lastCall, encIn, encOut>>
        \/ SpawnOk(c) /\ UNCHANGED <<lastCall, encIn, encOut>>
        \/ SpawnErr(c) /\ UNCHANGED <<lastCall, encIn, encOut>>
        \/ NewReadLine(c) /\ UNCHANGED <<lastCall, encIn, encOut>>
        \/ NewReadEof(c) /\ UNCHANGED <<lastCall, encIn, encOut>>
        \/ ChildExit(c) /\ UNCHANGED <<lastCall, encIn, encOut>>
        \/ CallApdu(c) /\ UNCHANGED <<lastCall, encIn, encOut>>
        \/ CallAutomation(c) /\ UNCHANGED <<lastCall, encIn, encOut>>
        \/ Drop(c) /\ UNCHANGED <<lastCall, encIn, encOut>>

Spec == Init /\ [][Next]_vars

\* ------------------------------------------------------------ ApiSpec
\* One handle after new returned it on the readiness marker, its child
\* running; every operation records its response and its whole result.
ApiInit ==
    /\ newPc = [c \in Clients |-> IF c = 1 THEN "done" ELSE "idle"]
    /\ newResult = [c \in Clients |-> IF c = 1 THEN "Ok" ELSE "none"]
    /\ scanEnd = [c \in Clients |-> IF c = 1 THEN "marker" ELSE "none"]
    /\ child = [c \in Clients |-> IF c = 1 THEN "running" ELSE "none"]
    /\ handle = [c \in Clients |-> IF c = 1 THEN "live" ELSE "none"]
    /\ process = [c \in Clients |-> IF c = 1 THEN 1 ELSE 0]
    /\ killRequests = [c \in Clients |-> 0]
    /\ killResult = [c \in Clients |-> "none"]
    /\ outcome = [c \in Clients |-> "none"]
    /\ lastCall = NoCall
    /\ encIn = NoCodec
    /\ encOut = NoCodec

ApiApdu(c) ==
    /\ handle[c] = "live"
    /\ \E resp \in Responses :
          /\ outcome' = [outcome EXCEPT ![c] = apdu(resp).kind]
          /\ lastCall' = [op |-> "apdu", client |-> c, resp |-> resp,
                          result |-> apdu(resp)]
    /\ UNCHANGED <<newPc, newResult, scanEnd, child, handle, process,
                   killRequests, killResult, encIn, encOut>>

ApiAutomation(c) ==
    /\ handle[c] = "live"
    /\ \E resp \in Responses :
          /\ outcome' = [outcome EXCEPT ![c] = automation(resp).kind]
          /\ lastCall' = [op |-> "automation", client |-> c, resp |-> resp,
                          result |-> automation(resp)]
    /\ UNCHANGED <<newPc, newResult, scanEnd, child, handle, process,
                   killRequests, killResult, encIn, encOut>>

ApiNext == \E c \in Clients : ApiApdu(c) \/ ApiAutomation(c)

ApiSpec == ApiInit /\ [][ApiNext]_vars

\* ------------------------------------------------------------ codec values
\* JSON values as serde_json writes them.
JStr(s) == [t |-> "str", s |-> s]
JNum(n) == [t |-> "num", n |-> n]
JBool(b) == [t |-> "bool", b |-> b]
JArr(a) == [t |-> "arr", a |-> a]
\* An object: its members in the order they are written, <<key, value>>.
JObj(members) == [t |-> "obj", o |-> members]
JNull == [t |-> "null"]

\* Option<T>
None == [some |-> FALSE]
Some(v) == [some |-> TRUE, v |-> v]

VarNames == {"foo"}
Texts == {"Approve"}
Coords == 0..MaxCoord
Buttons == {"Left", "Right"}

\* enum AutomationAction
Actions ==
    { [variant |-> "Button", button |-> b, pressed |-> p] :
          b \in Buttons, p \in BOOLEAN }
    \cup { [variant |-> "Finger", x |-> x, y |-> y, touched |-> t] :
              x \in Coords, y \in Coords, t \in BOOLEAN }
    \cup { [variant |-> "Setbool", varname |-> n, value |-> v] :
              n \in VarNames, v \in BOOLEAN }
    \cup { [variant |-> "Exit"] }

\* struct AutomationCondition
Conditions == { [varname |-> n, value |-> v] : n \in VarNames, v \in BOOLEAN }

\* The actions the rules of the model are built from: one of each variant.
RuleActions ==
    { [variant |-> "Button", button |-> "Right", pressed |-> TRUE],
      [variant |-> "Finger", x |-> 0, y |-> MaxCoord, touched |-> TRUE],
      [variant |-> "Setbool", varname |-> "foo", value |-> FALSE],
      [variant |-> "Exit"] }

SeqsUpTo(S, n) == UNION { [1..k -> S] : k \in 0..n }

OptOf(S) == {None} \cup { Some(v) : v \in S }

\* struct AutomationRule
Rules ==
    { [text |-> t, regexp |-> r, x |-> x, y |-> y,
       conditions |-> cs, actions |-> as] :
          t \in OptOf(Texts), r \in OptOf(Texts),
          x \in OptOf(Coords), y \in OptOf(Coords),
          cs \in SeqsUpTo(Conditions, MaxListLen),
          as \in SeqsUpTo(RuleActions, MaxListLen) }

\* ------------------------------------------------------------ Serialize
\* A slip SerializeCondition is checked against: the derived encoding, an
\* object of named fields.
SerializeConditionDerived(cond) ==
    JObj(<< <<"varname", JStr(cond.varname)>>,
            <<"value", JBool(cond.value)>> >>)

\* impl Serialize for AutomationCondition
SerializeCondition(cond) ==
    JArr(<<JStr(cond.varname), JBool(cond.value)>>)

\* A slip ButtonCode is checked against: the enum's declaration order.
ButtonCodeByDeclaration(button) == IF button = "Left" THEN 0 ELSE 1

\* `match button { Button::Left => 1, Button::Right => 2 }`
ButtonCode(button) == IF button = "Left" THEN 1 ELSE 2

\* impl Serialize for AutomationAction
SerializeAction(a) ==
    CASE a.variant = "Button" ->
            JArr(<<JStr("button"), JNum(ButtonCode(a.button)),
                   JBool(a.pressed)>>)
      [] a.variant = "Finger" ->
            JArr(<<JStr("finger"), JNum(a.x), JNum(a.y), JBool(a.touched)>>)
      [] a.variant = "Setbool" ->
            JArr(<<JStr("setbool"), JStr(a.varname), JBool(a.value)>>)
      [] a.variant = "Exit" ->
            JArr(<<JStr("exit")>>)

\* A slip OptionalMember is checked against: serde's default for an Option
\* field, which writes null for None.
OptionalMemberNull(key, opt, kind) ==
    IF opt.some
    THEN << <<key, IF kind = "str" THEN JStr(opt.v) ELSE JNum(opt.v)>> >>
    ELSE << <<key, JNull>> >>

\* A field under #[serde(skip_serializing_if = "Option::is_none")]: no
\* member for None, the value itself (a string or a number) for Some.
OptionalMember(key, opt, kind) ==
    IF opt.some
    THEN << <<key, IF kind = "str" THEN JStr(opt.v) ELSE JNum(opt.v)>> >>
    ELSE <<>>

\* #[derive(Serialize)] on AutomationRule: the fields in declaration order.
SerializeRule(r) ==
    JObj(OptionalMember("text", r.text, "str")
         \o OptionalMember("regexp", r.regexp, "str")
         \o OptionalMember("x", r.x, "num")
         \o OptionalMember("y", r.y, "num")
         \o << <<"conditions",
                 JArr([i \in 1..Len(r.conditions) |->
                          SerializeCondition(r.conditions[i])])>>,
               <<"actions",
                 JArr([i \in 1..Len(r.actions) |->
                          SerializeAction(r.actions[i])])>> >>)

\* #[derive(Serialize)] on PostAutomationRequest
SerializePostAutomationRequest(req) ==
    JObj(<< <<"version", JNum(req.version)>>,
            <<"rules", JArr([i \in 1..Len(req.rules) |->
                                SerializeRule(req.rules[i])])>> >>)

\* `PostAutomationRequest { version: 1, rules }` in automation
ProtocolVersion == 1

\* ------------------------------------------------------------ CodecSpec
CodecInit ==
    /\ newPc = [c \in Clients |-> "idle"]
    /\ newResult = [c \in Clients |-> "none"]
    /\ scanEnd = [c \in Clients |-> "none"]
    /\ child = [c \in Clients |-> "none"]
    /\ handle = [c \in Clients |-> "none"]
    /\ process = [c \in Clients |-> 0]
    /\ killRequests = [c \in Clients |-> 0]
    /\ killResult = [c \in Clients |-> "none"]
    /\ outcome = [c \in Clients |-> "none"]
    /\ lastCall = NoCall
    /\ encIn = NoCodec
    /\ encOut = NoCodec

EncodeAction ==
    /\ encIn = NoCodec
    /\ \E a \in Actions :
          /\ encIn' = [t |-> "action", v |-> a]
          /\ encOut' = SerializeAction(a)
    /\ UNCHANGED <<lifeVars, lastCall>>

EncodeCondition ==
    /\ encIn = NoCodec
    /\ \E cond \in Conditions :
          /\ encIn' = [t |-> "condition", v |-> cond]
          /\ encOut' = SerializeCondition(cond)
    /\ UNCHANGED <<lifeVars, lastCall>>

EncodeRule ==
    /\ encIn = NoCodec
    /\ \E r \in Rules :
          /\ encIn' = [t |-> "rule", v |-> r]
          /\ encOut' = SerializeRule(r)
    /\ UNCHANGED <<lifeVars, lastCall>>

\* The body automation posts for a slice of rules.
EncodeRequest ==
    /\ encIn = NoCodec
    /\ \E rules \in SeqsUpTo(Rules, 1) :
          /\ encIn' = [t |-> "request", v |-> rules]
          /\ encOut' = SerializePostAutomationRequest(
                          [version |-> ProtocolVersion, rules |-> rules])
    /\ UNCHANGED <<lifeVars, lastCall>>

CodecNext == EncodeAction \/ EncodeCondition \/ EncodeRule \/ EncodeRequest

CodecSpec == CodecInit /\ [][CodecNext]_vars

\* ============================================================ claims
\* The child a handle owns.
Owned(h) == process[h]

\* The handles (live or dropped) whose `process` field is child p.
Owners(p) == { h \in Clients : handle[h] # "none" /\ process[h] = p }

\* The supervisor's lifecycle state, read off the program's position.
State(c) ==
    IF newPc[c] = "idle" THEN "Unstarted"
    ELSE IF newPc[c] \in {"spawning", "scanning"} THEN "Launching"
    ELSE IF handle[c] = "live" THEN "Ready"
    ELSE "Terminated"

\* C1: once a handle is dropped, the child it owns is not both still
\* running and without a kill request, whatever operations ran (and
\* however they ended) before the drop.
C1_DroppedHandleKillsChild ==
    \A h \in Clients :
        handle[h] = "dropped" =>
            /\ Owned(h) \in Clients
            /\ ~ (child[Owned(h)] = "running" /\ killRequests[Owned(h)] = 0)

\* A handle dropped right after a failed or panicked operation, its child
\* killed.
C1_Witness ==
    \E h \in Clients :
        /\ handle[h] = "dropped"
        /\ outcome[h] \in {"Err", "Panic"}
        /\ child[Owned(h)] = "killed"

\* C2: when the child's stderr ends before a line with the readiness marker
\* was read, new returns an error and no handle.
C2_EofFailsConstruction ==
    \A c \in Clients :
        (newPc[c] = "done" /\ scanEnd[c] = "eof") =>
            /\ newResult[c] \notin {"none", "Ok"}
            /\ handle[c] = "none"

\* The hex digits of either case.
HexDigitChars ==
    {"0", "1", "2", "3", "4", "5", "6", "7", "8", "9",
     "a", "b", "c", "d", "e", "f", "A", "B", "C", "D", "E", "F"}

\* A body that is no well-formed {"data": hex}.
Malformed(body) ==
    \/ body.kind # "data"
    \/ Len(body.data) % 2 = 1
    \/ \E i \in 1..Len(body.data) : body.data[i] \notin HexDigitChars

\* C3: an apdu call whose exchange succeeded at transport level and whose
\* body is malformed returns an error result: no panic, no byte buffer.
C3_MalformedBodyIsError ==
    (/\ lastCall.op = "apdu"
     /\ lastCall.resp.transport = "ok"
     /\ Malformed(lastCall.resp.body))
        => lastCall.result.kind = "Err"

\* A success status (2xx), as http::StatusCode::is_success has it.
SuccessStatus(status) == status >= 200 /\ status <= 299

\* The apdu half of C4: with the transport succeeding and a well-formed
\* body, apdu returns the decoded bytes whatever the status.
ApduIgnoresStatus ==
    (/\ lastCall.op = "apdu"
     /\ lastCall.resp.transport = "ok"
     /\ ~ Malformed(lastCall.resp.body))
        => /\ lastCall.result.kind = "Ok"
           /\ 2 * Len(lastCall.result.bytes) = Len(lastCall.resp.body.data)
           /\ \A i \in 1..Len(lastCall.result.bytes) :
                 lastCall.result.bytes[i] \in 0..255
           /\ lastCall.resp.body.data = <<"a", "F">>
                 => lastCall.result.bytes = <<175>>
           /\ lastCall.resp.body.data = <<"0", "a">>
                 => lastCall.result.bytes = <<10>>
           /\ lastCall.resp.body.data = <<>>
                 => lastCall.result.bytes = <<>>

C5_Lifecycle ==
    [][\A c \in Clients :
          /\ State(c) # State(c)' =>
                <<State(c), State(c)'>> \in
                    { <<"Unstarted", "Launching">>, <<"Launching", "Ready">>,
                      <<"Ready", "Terminated">>,
                      <<"Launching", "Terminated">> }
          /\ (State(c) # "Ready" /\ State(c)' = "Ready") =>
                (State(c) = "Launching" /\ scanEnd'[c] = "marker")
          /\ (ENABLED CallApdu(c) \/ ENABLED CallAutomation(c)) =>
                State(c) = "Ready"
          /\ State(c) = "Terminated" => State(c)' = "Terminated"]_vars

\* C6: each action encodes as the array of its tag and its fields in the
\* order of the protocol: ["button", 1|2, pressed], ["finger", x, y,
\* touched], ["setbool", varname, value], ["exit"].
C6_ActionEncoding ==
    encIn.t = "action" =>
        /\ encOut.t = "arr"
        /\ encIn.v.variant = "Button" =>
              /\ Len(encOut.a) = 3
              /\ encOut.a[1] = JStr("button")
              /\ encOut.a[2] = JNum(IF encIn.v.button = "Left" THEN 1 ELSE 2)
              /\ encOut.a[3] = JBool(encIn.v.pressed)
        /\ encIn.v.variant = "Finger" =>
              encOut.a = <<JStr("finger"), JNum(encIn.v.x), JNum(encIn.v.y),
                           JBool(encIn.v.touched)>>
        /\ encIn.v.variant = "Setbool" =>
              encOut.a = <<JStr("setbool"), JStr(encIn.v.varname),
                           JBool(encIn.v.value)>>
        /\ encIn.v.variant = "Exit" =>
              (Len(encOut.a) = 1 /\ encOut.a = <<JStr("exit")>>)

\* A left-button press encoded as ["button", 1, true].
C6_Witness ==
    /\ encIn = [t |-> "action",
                v |-> [variant |-> "Button", button |-> "Left",
                       pressed |-> TRUE]]
    /\ encOut = JArr(<<JStr("button"), JNum(1), JBool(TRUE)>>)

\* The keys of an encoded object.
Keys(obj) == { obj.o[i][1] : i \in 1..Len(obj.o) }

\* The value of a key of an encoded object.
Member(obj, key) ==
    obj.o[CHOOSE i \in 1..Len(obj.o) : obj.o[i][1] = key][2]

\* An encoded rule has each matcher key exactly when the field is present,
\* no null member, and conditions and actions as arrays of the slices'
\* lengths.
RuleEncoded(r, obj) ==
    /\ obj.t = "obj"
    /\ "text" \in Keys(obj) <=> r.text.some
    /\ "regexp" \in Keys(obj) <=> r.regexp.some
    /\ "x" \in Keys(obj) <=> r.x.some
    /\ "y" \in Keys(obj) <=> r.y.some
    /\ \A i \in 1..Len(obj.o) : obj.o[i][2] # JNull
    /\ Cardinality(Keys(obj)) = Len(obj.o)
    /\ {"conditions", "actions"} \subseteq Keys(obj)
    /\ Keys(obj) \subseteq
          {"text", "regexp", "x", "y", "conditions", "actions"}
    /\ Member(obj, "conditions").t = "arr"
    /\ Len(Member(obj, "conditions").a) = Len(r.conditions)
    /\ Member(obj, "actions").t = "arr"
    /\ Len(Member(obj, "actions").a) = Len(r.actions)

\* C7: a rule's encoding has the key text, regexp, x or y exactly when the
\* field is present (never null), and always conditions and actions as
\* lists; the same for each rule of an automation request.
C7_RuleEncoding ==
    /\ encIn.t = "rule" => RuleEncoded(encIn.v, encOut)
    /\ encIn.t = "request" =>
          /\ Len(Member(encOut, "rules").a) = Len(encIn.v)
          /\ \A i \in 1..Len(encIn.v) :
                RuleEncoded(encIn.v[i], Member(encOut, "rules").a[i])

\* A rule with no matcher and empty slices, encoded with the two list keys
\* only.
C7_Witness ==
    /\ encIn.t = "rule"
    /\ ~ encIn.v.text.some /\ ~ encIn.v.regexp.some
    /\ ~ encIn.v.x.some /\ ~ encIn.v.y.some
    /\ encIn.v.conditions = <<>> /\ encIn.v.actions = <<>>
    /\ Keys(encOut) = {"conditions", "actions"}
    /\ Member(encOut, "conditions") = JArr(<<>>)
    /\ Member(encOut, "actions") = JArr(<<>>)

\* C8: a condition encodes as the array [varname, value] of exactly two
\* elements, the name first, never as an object.
C8_ConditionEncoding ==
    encIn.t = "condition" =>
        /\ encOut.t = "arr"
        /\ Len(encOut.a) = 2
        /\ encOut.a[1] = JStr(encIn.v.varname)
        /\ encOut.a[2] = JBool(encIn.v.value)

\* {varname: "foo", value: true} encoded as ["foo", true].
C8_Witness ==
    /\ encIn = [t |-> "condition", v |-> [varname |-> "foo", value |-> TRUE]]
    /\ encOut = JArr(<<JStr("foo"), JBool(TRUE)>>)

\* C9: drop can always run on a live handle (it never blocks), and a
\* dropped handle has requested kill of its child exactly once, whatever
\* the child's state was and whatever kill returned; before the drop no
\* kill was requested.
C9_DropKillsOnceAlways ==
    \A h \in Clients :
        /\ handle[h] = "live" =>
              (ENABLED Drop(h) /\ killRequests[Owned(h)] = 0)
        /\ handle[h] = "dropped" =>
              /\ killRequests[Owned(h)] = 1
              /\ killResult[Owned(h)] \in {"Ok", "Err"}

\* A handle dropped after its child had exited on its own: kill was still
\* requested.
C9_Witness ==
    \E h \in Clients :
        /\ handle[h] = "dropped"
        /\ child[Owned(h)] = "exited"
        /\ killResult[Owned(h)] = "Ok"
        /\ killRequests[Owned(h)] = 1

====
